---- MODULE Spec2Model ----
(***************************************************************************)
(* A state-machine model of the SMC sampler with NUTS proposals            *)
(* (smcnuts.smc_sampler.SMCSampler, smcnuts.samples.Samples and the        *)
(* accept-reject NUTS proposal), run twice by the experiment driver from   *)
(* one saved RNG state.                                                    *)
(*                                                                         *)
(* Numbers.  A float is kept as an exact extended rational <<n, d>>:       *)
(*   d > 0   the finite value n/d, in lowest terms;                        *)
(*   <<1,0>> +inf,  <<-1,0>> -inf,  <<0,0>> NaN.                           *)
(* A log-domain float (a log-weight, a log-density, a log-likelihood) is   *)
(* kept as the record [log |-> q], standing for the float log(q); q is the *)
(* extended rational of its exponential, so log(0) is -inf.  Exp and Log   *)
(* convert between the two; LogAdd/LogSub are + and - of log-domain floats *)
(* with the IEEE rules for -inf, +inf and NaN.                             *)
(*                                                                         *)
(* The temperature phi is held on a grid, in units of 1/PhiGrid: the       *)
(* integer PhiGrid is the float 1.0 and 0 is the float 0.0.                *)
(***************************************************************************)
EXTENDS Integers, Sequences, FiniteSets, TLC

\* ------------------------------------------------------------------ bounds
\* Number of particles.
N == 3
\* Largest number of iterations K a configuration may ask for.
MaxK == 2
\* Seeds 0..NumSeeds-1 of the driver's generator.
NumSeeds == 6
\* The temperatures are j / PhiGrid, j = 0..PhiGrid: PhiGrid stands for
\* phi = 1.0, and is the exponent of the targets' likelihood (see Root).
PhiGrid == 3
\* Dimension of the target (target.dim).
D == 2

\* ------------------------------------------------------- extended rationals
Abs(a) == IF a < 0 THEN -a ELSE a

Sign(a) == IF a < 0 THEN -1 ELSE IF a > 0 THEN 1 ELSE 0

RECURSIVE GCD(_, _)
GCD(a, b) == IF b = 0 THEN a ELSE GCD(b, a % b)

\* The float n/d (d of either sign; d = 0 gives +inf, -inf or NaN as IEEE does).
Q(n, d) ==
    IF d = 0 THEN <<Sign(n), 0>>
    ELSE LET s == IF d < 0 THEN -1 ELSE 1
             g == GCD(Abs(n), Abs(d))
         IN  <<(s * n) \div g, (s * d) \div g>>

Zero == <<0, 1>>
One == <<1, 1>>
NaN == <<0, 0>>
PosInf == <<1, 0>>
NegInf == <<-1, 0>>

IsNaN(a) == a = NaN
IsFinite(a) == a[2] > 0

QNeg(a) == <<-a[1], a[2]>>

\* Sums and products cancel common factors before multiplying.
QAdd(a, b) ==
    IF IsNaN(a) \/ IsNaN(b) THEN NaN
    ELSE IF a[2] = 0 /\ b[2] = 0 THEN (IF a = b THEN a ELSE NaN)
    ELSE IF a[2] = 0 THEN a
    ELSE IF b[2] = 0 THEN b
    ELSE LET g == GCD(a[2], b[2])
         IN  Q(a[1] * (b[2] \div g) + b[1] * (a[2] \div g), (a[2] \div g) * b[2])

QSub(a, b) == QAdd(a, QNeg(b))

QMul(a, b) ==
    IF a[2] = 0 \/ b[2] = 0 THEN Q(Sign(a[1]) * Sign(b[1]), 0)
    ELSE LET g1 == GCD(Abs(a[1]), b[2])
             g2 == GCD(Abs(b[1]), a[2])
         IN  Q((a[1] \div g1) * (b[1] \div g2), (a[2] \div g2) * (b[2] \div g1))

\* a / b = a * (1 / b); 1/0 is +inf, 1/inf is 0, 1/NaN is NaN.
QInv(b) ==
    IF b = NaN THEN NaN
    ELSE IF b[2] = 0 THEN Zero
    ELSE IF b[1] = 0 THEN PosInf
    ELSE IF b[1] < 0 THEN <<-b[2], -b[1]>>
    ELSE <<b[2], b[1]>>

QDiv(a, b) ==
    IF b[2] > 0 /\ b[1] = 0 THEN Q(a[1], 0)
    ELSE QMul(a, QInv(b))

\* a < b on floats: false when either is NaN.
QLess(a, b) ==
    IF IsNaN(a) \/ IsNaN(b) THEN FALSE
    ELSE IF a[2] = 0 /\ b[2] = 0 THEN a[1] < b[1]
    ELSE a[1] * b[2] < b[1] * a[2]

RECURSIVE QPow(_, _)
QPow(a, e) == IF e = 0 THEN One ELSE QMul(a, QPow(a, e - 1))

RECURSIVE QSum(_)
QSum(s) == IF s = <<>> THEN Zero ELSE QAdd(Head(s), QSum(Tail(s)))

\* ---------------------------------------------------------- log-domain floats
Log(q) == [log |-> q]
Exp(l) == l.log
LogNegInf == Log(Zero)
LogZero == Log(One)
isneginf(l) == l = LogNegInf
LogIsFinite(l) == IsFinite(l.log) /\ l.log[1] > 0
LogAdd(a, b) == Log(QMul(a.log, b.log))
LogSub(a, b) == Log(QDiv(a.log, b.log))

\* ------------------------------------------------------------------ the RNG
\* The shared generator is a linear congruential stream over 0..RngMod-1; every
\* draw advances the state once and reads the new state.
RngMod == 64

NextRng(s) == (13 * s + 11) % RngMod

RECURSIVE RngAfter(_, _)
RngAfter(s, n) == IF n = 0 THEN s ELSE NextRng(RngAfter(s, n - 1))

\* A uniform float in [0, 1).
Uniform(s) == Q(s, RngMod)
\* A coordinate of the initial proposal, 0 or 1 with equal probability.
CoordOf(s) == (s \div 8) % 2
\* A momentum coordinate in {-1, 0, 1}.
MomentumOf(s) == ((s \div 4) % 3) - 1
\* A tree direction, +1 or -1.
DirectionOf(s) == IF (s \div 16) % 2 = 0 THEN 1 ELSE -1

Particles == 1..N
Dims == 1..D
Positions == [Dims -> {0, 1}]

\* ------------------------------------------------- the target and proposals
\* The model adapter: logpdf(x, phi) = log prior(x) + phi * log likelihood(x).
\* The likelihood is Root(x)^PhiGrid, so that every grid temperature gives a
\* rational density.  "half" has no support where the last coordinate is 1, and
\* "empty" has no support on the lattice at all.  "constrained" has the density
\* of "gauss" and, alone among the targets, the attribute constrained_dim.
Targets == {"gauss", "peaked", "half", "empty", "constrained"}

\* hasattr(self.target, "constrained_dim")
HasConstrainedDim(t) == t = "constrained"

\* target.constrain(x) for one position: an affine map to the constrained space.
constrain(t, xv) == [d \in Dims |-> 2 * xv[d] + 1]

RECURSIVE SumInts(_)
SumInts(s) == IF s = <<>> THEN 0 ELSE Head(s) + SumInts(Tail(s))

RECURSIVE IntPow(_, _)
IntPow(b, e) == IF e = 0 THEN 1 ELSE b * IntPow(b, e - 1)

Prior(t, x) ==
    IF t = "empty" \/ (t = "half" /\ x[D] = 1) THEN Zero ELSE Q(1, IntPow(2, D))

Root(t, x) == IF t = "peaked" THEN Q(1, IntPow(4, x[1]))
              ELSE Q(1, IntPow(2, x[1]))

\* target.logpdf(x, phi=phi)
logpdf(t, x, ph) == Log(QMul(Prior(t, x), QPow(Root(t, x), ph)))

\* sample_proposal.logpdf(x): the uniform initial proposal on the lattice.
q0_logpdf(x) == Log(Q(1, IntPow(2, D)))

\* sample_proposal.rvs(N): N * D coordinate draws, particle by particle.
sample_proposal_rvs(s) ==
    [i \in Particles |-> [d \in Dims |-> CoordOf(RngAfter(s, (i - 1) * D + d))]]

\* momentum_proposal.rvs(N)
momentum_proposal_rvs(s) ==
    [i \in Particles |-> [d \in Dims |-> MomentumOf(RngAfter(s, (i - 1) * D + d))]]

\* ------------------------------------------------------------------ Samples
\* logw[index], index = ~np.isneginf(logw)
FiniteIndex(logw) == {i \in DOMAIN logw : ~isneginf(logw[i])}

\* scipy.special.logsumexp of a non-empty vector.
logsumexp(ls) == Log(QSum([i \in DOMAIN ls |-> Exp(ls[i])]))

\* Samples.normalise_weights: log_likelihood (for an empty index: -inf, the value
\* of the builds whose logsumexp accepts an empty array).
NormLogLikelihood(logw) ==
    IF FiniteIndex(logw) = {} THEN LogNegInf
    ELSE logsumexp(SelectSeq(logw, LAMBDA l : ~isneginf(l)))

\* A faulty normalise_weights: wn[index] = np.exp(logw[index]), the
\* log-likelihood never subtracted.
NormWnUnshifted(logw) ==
    [i \in DOMAIN logw |-> IF i \in FiniteIndex(logw) THEN Exp(logw[i]) ELSE Zero]

\* Samples.normalise_weights: wn
NormWn(logw) ==
    LET ll == NormLogLikelihood(logw)
    IN  [i \in DOMAIN logw |->
            IF i \in FiniteIndex(logw) THEN Exp(LogSub(logw[i], ll)) ELSE Zero]

\* Samples.calculate_ess
calculate_ess(wn) == QDiv(One, QSum([i \in DOMAIN wn |-> QMul(wn[i], wn[i])]))

\* np.cumsum(p) / cdf[-1]
RECURSIVE CumSum(_, _)
CumSum(p, i) == IF i = 0 THEN Zero ELSE QAdd(CumSum(p, i - 1), p[i])

Cdf(p) == [i \in DOMAIN p |-> QDiv(CumSum(p, i), CumSum(p, Len(p)))]

\* cdf.searchsorted(u, side="right"), as a 1-based particle index.
SearchSorted(cdf, u) == 1 + Cardinality({j \in DOMAIN cdf : ~QLess(u, cdf[j])})

\* rng.choice validates p: no NaN, nothing negative, sum equal to 1.
ChoiceValid(p) ==
    /\ \A i \in DOMAIN p : IsFinite(p[i]) /\ p[i][1] >= 0
    /\ QSum(p) = One

\* rng.choice(i, N, p=wn): the N indices drawn from generator state s.
Choice(p, s) == [j \in Particles |-> SearchSorted(Cdf(p), Uniform(RngAfter(s, j)))]

\* A faulty resample: logw_new = np.ones(N) * log_likelihood, the mass counted
\* N times.
ResampleLogwUnsplit(log_likelihood) == [i \in Particles |-> log_likelihood]

\* Samples.resample: logw_new = np.ones(N) * log_likelihood - np.log(N)
ResampleLogw(log_likelihood) ==
    [i \in Particles |-> LogSub(log_likelihood, Log(Q(N, 1)))]

\* Samples.resample: x_new = x[i_new]
ResampleX(x, wn, s) == LET i_new == Choice(wn, s) IN [j \in Particles |-> x[i_new[j]]]

\* ---------------------------------------------------------------- SMCSampler
\* SMCSampler.estimate: _x = target.constrain(x) if the target has
\* constrained_dim, else x.copy()
EstimateX(t, x) ==
    IF HasConstrainedDim(t) THEN [i \in DOMAIN x |-> constrain(t, x[i])] ELSE x

\* SMCSampler.estimate: mean = wn.T @ _x
EstimateMean(t, x, wn) ==
    LET cx == EstimateX(t, x)
    IN  [d \in Dims |-> QSum([i \in DOMAIN wn |-> QMul(wn[i], Q(cx[i][d], 1))])]

\* SMCSampler.estimate: var = wn.T @ np.square(_x - mean)
EstimateVar(t, x, wn) ==
    LET cx == EstimateX(t, x)
        mean == EstimateMean(t, x, wn)
    IN  [d \in Dims |->
            QSum([i \in DOMAIN wn |->
                    LET sh == QSub(Q(cx[i][d], 1), mean[d])
                    IN  QMul(wn[i], QMul(sh, sh))])]

\* ----------------------------------------------------------- NUTS proposals
\* exp(-r.r / 2) on the lattice of momenta, a rational stand-in for the kinetic
\* term.
Kinetic(r) == Q(1, IntPow(2, SumInts([d \in Dims |-> r[d] * r[d]])))

\* NUTSProposal.generate_nuts_samples for one particle: the tree picks a
\* direction and returns the leaf one lattice step along the momentum.
generate_nuts_samples(xc, rc, s) ==
    LET v == DirectionOf(NextRng(s))
    IN  [x |-> [d \in Dims |-> (xc[d] + Abs(rc[d])) % 2],
         r |-> [d \in Dims |-> v * rc[d]]]

\* hmc_accept_reject(target.logpdf, x, x', r, r', rng): the Metropolis test on
\* the Hamiltonian at phi = 1.0, u < exp(H(x, r) - H(x', r')).
hmc_accept_reject(t, xc, xp, rc, rp, s) ==
    LET h0 == QMul(Exp(logpdf(t, xc, PhiGrid)), Kinetic(rc))
        h1 == QMul(Exp(logpdf(t, xp, PhiGrid)), Kinetic(rp))
    IN  QLess(Uniform(NextRng(s)), QDiv(h1, h0))

\* A faulty revert: the mask inverted, x_prime[accepted] = x_cond[accepted].
RevertAccepted(prime, cond, acc) ==
    [i \in Particles |-> IF acc[i] THEN cond[i] ELSE prime[i]]

\* x_prime[~accepted] = x_cond[~accepted]
RevertRejected(prime, cond, acc) ==
    [i \in Particles |-> IF acc[i] THEN prime[i] ELSE cond[i]]

\* ----------------------------------------------------- tempering, reweighting
\* The effective sample size implied by the incremental weights
\* logpdf(x, phi_next) - logpdf(x, phi_current).
IncrementalEss(t, x, cur, nxt) ==
    calculate_ess(NormWn([i \in Particles |->
        LogSub(logpdf(t, x[i], nxt), logpdf(t, x[i], cur))]))

\* TemperingController.calculate_phi: the first grid temperature at or above
\* phi_current where the incremental ESS has fallen to N/2, clamped to 1.0.
calculate_phi(t, x, cur) ==
    LET hit == {j \in cur..PhiGrid :
                  ~QLess(Q(N, 2), IncrementalEss(t, x, cur, j))
                  /\ ~IsNaN(IncrementalEss(t, x, cur, j))}
    IN  IF hit = {} THEN PhiGrid
        ELSE CHOOSE j \in hit : \A m \in hit : j <= m

LKernels == {"forwardsLKernel", "GaussianApproxLKernel", "asymptoticLKernel"}

\* The Gaussian approximation's correction term, log L(x | x_new) - log
\* q(x_new | x), for lattice Gaussians fitted along the first coordinate.
GaussCorrection(xc, xn) ==
    LogSub(Log(Q(1, IntPow(2, xc[1]))), Log(Q(1, IntPow(2, xn[1]))))

\* Samples.reweight for one particle.
ReweightOne(t, lk, lw, xc, xn, phold, phnew) ==
    LET ratio == LogSub(logpdf(t, xn, phnew), logpdf(t, xc, phold))
    IN  IF lk = "GaussianApproxLKernel"
        THEN LogAdd(LogAdd(lw, ratio), GaussCorrection(xc, xn))
        ELSE LogAdd(lw, ratio)

\* ------------------------------------------------------------------- state
\* An entry of an output array: its value and how many times it was stored to.
Cell(v) == [val |-> v, n |-> 0]

\* arr[j] = v
SetItem(arr, j, v) == [arr EXCEPT ![j] = [val |-> v, n |-> @.n + 1]]

\* What scipy's logsumexp does with an empty array depends on the build: it
\* raises ValueError, or it returns -inf.  Which one this build does is unknown
\* until the first call with an empty array.
Builds == {"raises", "neginf"}

BuildChoices(b, lw) ==
    IF b = "unknown" /\ FiniteIndex(lw) = {} THEN Builds ELSE {b}

VARIABLES
    \* the driver
    scenario, run, pc, err, rng, initial_state, first, files,
    \* the configuration
    K, tempering, lkernel, target, build,
    \* Samples
    x, x_new, r, r_new, logw, logw_new, wn, s_log_likelihood, s_ess,
    phi_new, phi_old,
    \* SMCSampler
    k, phi, ess, log_likelihood, acceptance_rate, mean_estimate,
    variance_estimate, x_saved, logw_saved, loc_mean, loc_var, kt, pass_rng,
    \* the proposal's rvs
    i, x_prime, r_prime, accepted, tree_x, tree_r, tests

driverVars == <<scenario, run, pc, err, rng, initial_state, first, files>>
configVars == <<K, tempering, lkernel, target, build>>
samplesVars == <<x, x_new, r, r_new, logw, logw_new, wn, s_log_likelihood,
                 s_ess, phi_new, phi_old>>
traceVars == <<phi, ess, log_likelihood, acceptance_rate>>
estimateVars == <<mean_estimate, variance_estimate>>
savedVars == <<x_saved, logw_saved>>
localVars == <<k, loc_mean, loc_var, kt, pass_rng>>
rvsVars == <<i, x_prime, r_prime, accepted, tree_x, tree_r, tests>>
vars == <<driverVars, configVars, samplesVars, traceVars, estimateVars,
          savedVars, localVars, rvsVars>>

ZeroVec == [d \in Dims |-> 0]
ZeroQVec == [d \in Dims |-> Zero]
ZeroPos == [j \in Particles |-> ZeroVec]

\* ---------------------------------------------------------------- the driver
\* "driver": main() of run_experiments.py, three samplers one after the other
\* from the same saved generator state (forwardsLKernel, GaussianApproxLKernel,
\* asymptoticLKernel with tempering).  "repeat": one configuration of the
\* sampler's constructor arguments, run twice from the same generator state.
Scenarios == {"driver", "repeat"}

\* The state before the driver constructs the first sampler: the generator is
\* seeded and its state saved (rng = RandomState(seed); rng.get_state()).
Init ==
    /\ scenario \in Scenarios
    /\ run = 1 /\ pc = "construct" /\ err = "none"
    /\ initial_state \in 0..(NumSeeds - 1)
    /\ rng = initial_state
    /\ first = "none"
    /\ files = <<>>
    /\ K \in 1..MaxK
    /\ IF scenario = "driver"
       THEN lkernel = "forwardsLKernel" /\ tempering = FALSE
       ELSE lkernel \in LKernels /\ tempering \in BOOLEAN
    /\ target \in Targets
    /\ build = "unknown"
    /\ x = ZeroPos /\ x_new = ZeroPos /\ r = ZeroPos /\ r_new = ZeroPos
    /\ logw = [j \in Particles |-> LogZero]
    /\ logw_new = [j \in Particles |-> LogZero]
    /\ wn = [j \in Particles |-> Zero]
    /\ s_log_likelihood = LogZero /\ s_ess = Zero
    /\ phi_new = 0 /\ phi_old = 0
    /\ k = 0 /\ kt = 0 /\ pass_rng = 0
    /\ phi = [j \in 0..K |-> Cell(0)]
    /\ ess = [j \in 0..K |-> Cell(Zero)]
    /\ log_likelihood = [j \in 0..K |-> Cell(LogZero)]
    /\ acceptance_rate = [j \in 0..K |-> Cell(Zero)]
    /\ mean_estimate = [j \in 0..K |-> Cell(ZeroQVec)]
    /\ variance_estimate = [j \in 0..K |-> Cell(ZeroQVec)]
    /\ x_saved = [j \in 0..K |-> ZeroPos]
    /\ logw_saved = [j \in 0..K |-> [m \in Particles |-> LogZero]]
    /\ loc_mean = ZeroQVec /\ loc_var = ZeroQVec
    /\ i = 1 /\ x_prime = ZeroPos /\ r_prime = ZeroPos
    /\ accepted = [j \in Particles |-> FALSE]
    /\ tree_x = ZeroPos /\ tree_r = ZeroPos
    /\ tests = [j \in Particles |-> 0]

\* The initial temperature: 0.0 with tempering, 1.0 (fixed) without.
InitialPhi(temp) == IF temp THEN 0 ELSE PhiGrid

\* Samples.initialise_samples: logw = target.logpdf(x, phi) - q0.logpdf(x)
InitialLogw(t, xs, ph) ==
    [j \in Particles |-> LogSub(logpdf(t, xs[j], ph), q0_logpdf(xs[j]))]

\* rng.set_state(initial_state)
SetState(s, saved) == saved

\* The driver restores the generator a second time after constructing its
\* second sampler (GaussianApproxLKernel), and only that one.
RestoresAfterConstruct(sc, rn) == sc = "driver" /\ rn = 2

\* SMCSampler.__init__: allocate the output arrays, build the particle set and
\* save iteration 0 of the history.
Construct ==
    /\ pc = "construct"
    /\ LET xs == sample_proposal_rvs(rng)
           lw == InitialLogw(target, xs, InitialPhi(tempering))
       IN  /\ x' = xs
           /\ logw' = lw
           /\ x_saved' = [j \in 0..K |-> IF j = 0 THEN xs ELSE ZeroPos]
           /\ logw_saved' = [j \in 0..K |->
                               IF j = 0 THEN lw ELSE [m \in Particles |-> LogZero]]
    /\ rng' = RngAfter(rng, N * D)
    /\ phi_new' = InitialPhi(tempering) /\ phi_old' = InitialPhi(tempering)
    /\ x_new' = ZeroPos /\ r' = ZeroPos /\ r_new' = ZeroPos
    /\ logw_new' = [j \in Particles |-> LogZero]
    /\ wn' = [j \in Particles |-> Zero]
    /\ s_log_likelihood' = LogZero /\ s_ess' = Zero
    /\ phi' = [j \in 0..K |-> Cell(0)]
    /\ ess' = [j \in 0..K |-> Cell(Zero)]
    /\ log_likelihood' = [j \in 0..K |-> Cell(LogZero)]
    /\ acceptance_rate' = [j \in 0..K |-> Cell(Zero)]
    /\ mean_estimate' = [j \in 0..K |-> Cell(ZeroQVec)]
    /\ variance_estimate' = [j \in 0..K |-> Cell(ZeroQVec)]
    /\ k' = 0 /\ kt' = 0 /\ pass_rng' = 0
    /\ loc_mean' = ZeroQVec /\ loc_var' = ZeroQVec
    /\ pc' = IF RestoresAfterConstruct(scenario, run) THEN "restore" ELSE "loop"
    /\ UNCHANGED <<run, err, initial_state, first, files,
                   scenario, configVars, rvsVars>>

\* rng.set_state(initial_state) once more, between the constructor of the
\* second sampler and its sample().
RestoreAgain ==
    /\ pc = "restore"
    /\ rng' = SetState(rng, initial_state)
    /\ pc' = "loop"
    /\ UNCHANGED <<scenario, run, err, initial_state, first, files, configVars,
                   samplesVars, traceVars, estimateVars, savedVars, localVars,
                   rvsVars>>

\* ------------------------------------------------------ SMCSampler.sample
\* A faulty record: self.phi[0] = self.samples.phi_new, the index forgotten.
record_phi_first(arr, kk, ph) == SetItem(arr, 0, ph)

\* self.phi[k] = self.samples.phi_new
record_phi(arr, kk, ph) == SetItem(arr, kk, ph)

RecordPhi ==
    /\ pc = "loop" /\ k < K
    /\ phi' = record_phi(phi, k, phi_new)
    /\ pc' = "normalise"
    /\ UNCHANGED <<run, err, rng, initial_state, first, files,
                   scenario, configVars, samplesVars,
                   ess, log_likelihood, acceptance_rate, estimateVars, savedVars,
                   localVars, rvsVars>>

\* The loop is over: the terminal step starts with normalise_weights.
LoopExit ==
    /\ pc = "loop" /\ k = K
    /\ pc' = "normalise"
    /\ UNCHANGED <<run, err, rng, initial_state, first, files,
                   scenario, configVars, samplesVars,
                   traceVars, estimateVars, savedVars, localVars, rvsVars>>

\* self.samples.normalise_weights().  With every log-weight -inf the index is
\* empty: logsumexp of an empty array raises ValueError in some builds and
\* returns -inf in others.
NormaliseWeights ==
    /\ pc = "normalise"
    /\ \E b \in BuildChoices(build, logw) :
        /\ build' = b
        /\ IF FiniteIndex(logw) = {} /\ b = "raises"
           THEN /\ pc' = "error" /\ err' = "ValueError"
                /\ UNCHANGED <<wn, s_log_likelihood>>
           ELSE /\ wn' = NormWn(logw)
                /\ s_log_likelihood' = NormLogLikelihood(logw)
                /\ pc' = "estimate" /\ err' = err
    /\ UNCHANGED <<run, rng, initial_state, first, files,
                   scenario, K, tempering, lkernel, target,
                   x, x_new, r, r_new,
                   logw, logw_new, s_ess, phi_new, phi_old, traceVars,
                   estimateVars, savedVars, localVars, rvsVars>>

\* mean_estimate, variance_estimate = self.estimate(self.samples.x, self.samples.wn)
Estimate ==
    /\ pc = "estimate"
    /\ loc_mean' = EstimateMean(target, x, wn)
    /\ loc_var' = EstimateVar(target, x, wn)
    /\ pc' = "ess"
    /\ UNCHANGED <<run, err, rng, initial_state, first, files,
                   scenario, configVars, samplesVars,
                   traceVars, estimateVars, savedVars, k, kt, pass_rng, rvsVars>>

\* self.samples.calculate_ess()
CalculateEss ==
    /\ pc = "ess"
    /\ s_ess' = calculate_ess(wn)
    /\ pc' = IF k < K THEN "resample" ELSE "final_update"
    /\ UNCHANGED <<run, err, rng, initial_state, first, files,
                   scenario, configVars, x, x_new, r,
                   r_new, logw, logw_new, wn, s_log_likelihood, phi_new, phi_old,
                   traceVars, estimateVars, savedVars, localVars, rvsVars>>

\* Samples.resample_if_required: resample when the ESS is below N/2.
ResampleRequired(e) == QLess(e, Q(N, 2))

ResampleIfRequired ==
    /\ pc = "resample"
    /\ IF ResampleRequired(s_ess) /\ ~ChoiceValid(wn)
       THEN /\ pc' = "error" /\ err' = "ValueError"
            /\ UNCHANGED <<x, logw, rng>>
       ELSE IF ResampleRequired(s_ess)
       THEN /\ x' = ResampleX(x, wn, rng)
            /\ logw' = ResampleLogw(s_log_likelihood)
            /\ rng' = RngAfter(rng, N)
            /\ pc' = "propose" /\ err' = err
       ELSE /\ pc' = "propose" /\ err' = err
            /\ UNCHANGED <<x, logw, rng>>
    /\ UNCHANGED <<run, initial_state, first, files,
                   scenario, configVars, x_new, r, r_new,
                   logw_new, wn, s_log_likelihood, s_ess, phi_new, phi_old,
                   traceVars, estimateVars, savedVars, localVars, rvsVars>>

\* Samples.propose_samples: draw the momenta and enter the forward kernel's rvs.
ProposeSamples ==
    /\ pc = "propose"
    /\ r' = momentum_proposal_rvs(rng)
    /\ rng' = RngAfter(rng, N * D)
    /\ i' = 1
    /\ x_prime' = ZeroPos /\ r_prime' = ZeroPos
    /\ accepted' = [j \in Particles |-> FALSE]
    /\ tests' = [j \in Particles |-> 0]
    /\ tree_x' = ZeroPos /\ tree_r' = ZeroPos
    /\ pc' = "nuts"
    /\ UNCHANGED <<run, err, initial_state, first, files,
                   scenario, configVars, x, x_new, r_new,
                   logw, logw_new, wn, s_log_likelihood, s_ess, phi_new, phi_old,
                   traceVars, estimateVars, savedVars, localVars>>

\* ------------------------------------------- NUTSProposal(_with_AccRej).rvs
\* The asymptotic L-kernel forces the accept-reject forward kernel.
UsesAccRej(lk) == lk = "asymptoticLKernel"

\* for i in range(len(x_cond)):
\*     x_prime[i], r_prime[i] = self.generate_nuts_samples(x_cond[i], r_cond[i], ...)
NutsStep ==
    /\ pc = "nuts"
    /\ LET out == generate_nuts_samples(x[i], r[i], rng)
       IN  /\ x_prime' = [x_prime EXCEPT ![i] = out.x]
           /\ r_prime' = [r_prime EXCEPT ![i] = out.r]
           /\ tree_x' = [tree_x EXCEPT ![i] = out.x]
           /\ tree_r' = [tree_r EXCEPT ![i] = out.r]
    /\ rng' = NextRng(rng)
    /\ IF i < N
       THEN i' = i + 1 /\ pc' = "nuts"
       ELSE i' = 1 /\ pc' = IF UsesAccRej(lkernel) THEN "accrej" ELSE "return"
    /\ UNCHANGED <<run, err, initial_state, first, files,
                   scenario, configVars, samplesVars,
                   traceVars, estimateVars, savedVars, localVars, accepted, tests>>

\* for i in range(len(x_prime)):
\*     accepted[i] = hmc_accept_reject(self.target.logpdf, x_cond[i], x_prime[i], ...)
AccRejStep ==
    /\ pc = "accrej"
    /\ accepted' = [accepted EXCEPT ![i] =
                      hmc_accept_reject(target, x[i], x_prime[i], r[i], r_prime[i], rng)]
    /\ tests' = [tests EXCEPT ![i] = @ + 1]
    /\ rng' = NextRng(rng)
    /\ IF i < N
       THEN i' = i + 1 /\ pc' = "accrej"
       ELSE i' = 1 /\ pc' = "revert"
    /\ UNCHANGED <<run, err, initial_state, first, files,
                   scenario, configVars, samplesVars,
                   traceVars, estimateVars, savedVars, localVars, x_prime, r_prime,
                   tree_x, tree_r>>

\* x_prime[~accepted] = x_cond[~accepted]; r_prime[~accepted] = r_cond[~accepted]
Revert ==
    /\ pc = "revert"
    /\ x_prime' = RevertRejected(x_prime, x, accepted)
    /\ r_prime' = RevertRejected(r_prime, r, accepted)
    /\ pc' = "return"
    /\ UNCHANGED <<run, err, rng, initial_state, first, files,
                   scenario, configVars, samplesVars,
                   traceVars, estimateVars, savedVars, localVars, i, accepted,
                   tree_x, tree_r, tests>>

\* return x_prime, r_prime  (propose_samples stores them as x_new, r_new)
Return ==
    /\ pc = "return"
    /\ x_new' = x_prime
    /\ r_new' = r_prime
    /\ pc' = "temper"
    /\ UNCHANGED <<run, err, rng, initial_state, first, files,
                   scenario, configVars, x, r, logw,
                   logw_new, wn, s_log_likelihood, s_ess, phi_new, phi_old,
                   traceVars, estimateVars, savedVars, localVars, rvsVars>>

\* ------------------------------------------------- the rest of the iteration
\* Samples.update_temperature: the identity when tempering is disabled.
NextPhi(temp, t, xs, cur) == IF temp THEN calculate_phi(t, xs, cur) ELSE cur

UpdateTemperature ==
    /\ pc = "temper"
    /\ phi_old' = phi_new
    /\ phi_new' = NextPhi(tempering, target, x_new, phi_new)
    /\ pc' = "reweight"
    /\ UNCHANGED <<run, err, rng, initial_state, first, files,
                   scenario, configVars, x, x_new, r,
                   r_new, logw, logw_new, wn, s_log_likelihood, s_ess, traceVars,
                   estimateVars, savedVars, localVars, rvsVars>>

\* Samples.reweight
Reweight ==
    /\ pc = "reweight"
    /\ logw_new' = [j \in Particles |->
                      ReweightOne(target, lkernel, logw[j], x[j], x_new[j],
                                  phi_old, phi_new)]
    /\ pc' = "update_sampler"
    /\ UNCHANGED <<run, err, rng, initial_state, first, files,
                   scenario, configVars, x, x_new, r,
                   r_new, logw, wn, s_log_likelihood, s_ess, phi_new, phi_old,
                   traceVars, estimateVars, savedVars, localVars, rvsVars>>

\* np.sum(np.all(x_new != x, axis=1)) / N
AcceptanceRate(xs, xn) ==
    Q(Cardinality({j \in Particles : \A d \in Dims : xn[j][d] # xs[j][d]}), N)

\* A faulty update_sampler: self.K used where the iteration index k is meant.
update_sampler_at_K(kk, m, v) ==
    /\ log_likelihood' = SetItem(log_likelihood, K, s_log_likelihood)
    /\ mean_estimate' = SetItem(mean_estimate, K, m)
    /\ variance_estimate' = SetItem(variance_estimate, K, v)
    /\ ess' = SetItem(ess, K, s_ess)
    /\ acceptance_rate' = SetItem(acceptance_rate, K, AcceptanceRate(x, x_new))

\* SMCSampler.update_sampler(k, mean_estimate, variance_estimate)
update_sampler(kk, m, v) ==
    /\ log_likelihood' = SetItem(log_likelihood, kk, s_log_likelihood)
    /\ mean_estimate' = SetItem(mean_estimate, kk, m)
    /\ variance_estimate' = SetItem(variance_estimate, kk, v)
    /\ ess' = SetItem(ess, kk, s_ess)
    /\ acceptance_rate' = SetItem(acceptance_rate, kk, AcceptanceRate(x, x_new))

\* self.update_sampler(k, mean_estimate, variance_estimate), inside the loop
UpdateSampler ==
    /\ pc = "update_sampler"
    /\ update_sampler(k, loc_mean, loc_var)
    /\ pc' = "update_samples"
    /\ UNCHANGED <<run, err, rng, initial_state, first, files,
                   scenario, configVars, samplesVars,
                   phi, savedVars, localVars, rvsVars>>

\* self.samples.update_samples(); x_saved[k+1] = x_new; logw_saved[k+1] = logw_new
UpdateSamples ==
    /\ pc = "update_samples"
    /\ x' = x_new
    /\ logw' = logw_new
    /\ x_saved' = [x_saved EXCEPT ![k + 1] = x_new]
    /\ logw_saved' = [logw_saved EXCEPT ![k + 1] = logw_new]
    /\ k' = k + 1
    /\ pc' = "loop"
    /\ UNCHANGED <<run, err, rng, initial_state, first, files,
                   scenario, configVars, x_new, r, r_new,
                   logw_new, wn, s_log_likelihood, s_ess, phi_new, phi_old,
                   traceVars, estimateVars, loc_mean, loc_var, kt, pass_rng,
                   rvsVars>>

\* A faulty dispatch: the pass runs whatever the L-kernel.
RunsTemperedPassAlways(lk) == TRUE

\* The tempered re-estimation pass runs for the asymptotic L-kernel only.
RunsTemperedPass(lk) == lk = "asymptoticLKernel"

\* A faulty terminal step: the final temperature is never recorded.
record_final_phi_skipped(arr, ph) == arr

\* self.phi[self.K] = self.samples.phi_new
record_final_phi(arr, ph) == SetItem(arr, K, ph)

\* self.update_sampler(self.K, ...); self.phi[self.K] = self.samples.phi_new
FinalUpdate ==
    /\ pc = "final_update"
    /\ update_sampler(K, loc_mean, loc_var)
    /\ phi' = record_final_phi(phi, phi_new)
    /\ kt' = 0
    /\ pass_rng' = rng
    /\ pc' = IF RunsTemperedPass(lkernel) THEN "tempered" ELSE "done"
    /\ UNCHANGED <<run, err, rng, initial_state, first, files,
                   scenario, configVars, samplesVars,
                   savedVars, k, loc_mean, loc_var, rvsVars>>

\* ------------------------------------------ SMCSampler.estimate_from_tempered
\* x = self.x_saved[k].copy()[z_new], z_new = rng.choice(z, N, p=wn)
TemperedX(xs, p, s) == LET z_new == Choice(p, s) IN [j \in Particles |-> xs[z_new[j]]]

\* ess_logw[k] = target.logpdf(x) - target.logpdf(x, phi=self.phi[k])
TemperedLogw(t, xs, phik) ==
    [j \in Particles |-> LogSub(logpdf(t, xs[j], PhiGrid), logpdf(t, xs[j], phik))]

\* One pass of the loop body, for k = kt.  rng.choice raises ValueError when the
\* probabilities are not a distribution.
TemperedStep ==
    /\ pc = "tempered"
    /\ LET lw1 == logw_saved[kt]
           wn1 == NormWn(lw1)
           xs == TemperedX(x_saved[kt], wn1, rng)
           lw2 == TemperedLogw(target, xs, phi[kt].val)
           builds == IF FiniteIndex(lw1) = {} THEN BuildChoices(build, lw1)
                     ELSE IF ~ChoiceValid(wn1) THEN {build}
                     ELSE BuildChoices(build, lw2)
       IN  \E b \in builds :
           /\ build' = b
           /\ IF FiniteIndex(lw1) = {} /\ b = "raises"
              THEN /\ logw' = lw1
                   /\ pc' = "error" /\ err' = "ValueError"
                   /\ UNCHANGED <<wn, s_log_likelihood, rng, estimateVars, kt>>
              ELSE IF ~ChoiceValid(wn1)
              THEN /\ logw' = lw1 /\ wn' = wn1
                   /\ s_log_likelihood' = NormLogLikelihood(lw1)
                   /\ pc' = "error" /\ err' = "ValueError"
                   /\ UNCHANGED <<rng, estimateVars, kt>>
              ELSE IF FiniteIndex(lw2) = {} /\ b = "raises"
              THEN /\ logw' = lw2 /\ wn' = wn1
                   /\ s_log_likelihood' = NormLogLikelihood(lw1)
                   /\ rng' = RngAfter(rng, N)
                   /\ pc' = "error" /\ err' = "ValueError"
                   /\ UNCHANGED <<estimateVars, kt>>
              ELSE /\ logw' = lw2 /\ wn' = NormWn(lw2)
                   /\ s_log_likelihood' = NormLogLikelihood(lw2)
                   /\ rng' = RngAfter(rng, N)
                   /\ mean_estimate' =
                          SetItem(mean_estimate, kt, EstimateMean(target, xs, NormWn(lw2)))
                   /\ variance_estimate' =
                          SetItem(variance_estimate, kt, EstimateVar(target, xs, NormWn(lw2)))
                   /\ kt' = kt + 1
                   /\ pc' = IF kt = K THEN "done" ELSE "tempered"
                   /\ err' = err
    /\ UNCHANGED <<run, initial_state, first, files,
                   scenario, K, tempering, lkernel, target, x,
                   x_new, r, r_new, logw_new, s_ess, phi_new, phi_old, traceVars,
                   savedVars, k, loc_mean, loc_var, pass_rng, rvsVars>>

\* --------------------------------------------------------- the driver, again
\* The arrays the driver saves (mean, variance, ESS and phi), and the state the
\* generator is left in.
Outputs ==
    [mean |-> [j \in 0..K |-> mean_estimate[j].val],
     var |-> [j \in 0..K |-> variance_estimate[j].val],
     ess |-> [j \in 0..K |-> ess[j].val],
     phi |-> [j \in 0..K |-> phi[j].val],
     acceptance_rate |-> [j \in 0..K |-> acceptance_rate[j].val]]

\* save_output(sampler, strategy, i, output_dir)
save_output(fs, strategy) ==
    Append(fs, [strategy |-> strategy, out |-> Outputs])

\* What a run leaves behind: the arrays it would save, and the generator.
RunResult == [out |-> Outputs, rng |-> rng]

\* main(), after the first sampler: save its output, restore the generator and
\* construct the sampler with the Gaussian approximation, tempering off.
RunGaussian ==
    /\ scenario = "driver" /\ pc = "done" /\ run = 1
    /\ files' = save_output(files, "forward_lkernel")
    /\ rng' = SetState(rng, initial_state)
    /\ lkernel' = "GaussianApproxLKernel" /\ tempering' = FALSE
    /\ run' = 2
    /\ pc' = "construct"
    /\ UNCHANGED <<scenario, err, initial_state, first, K, target, build,
                   samplesVars, traceVars, estimateVars, savedVars, localVars,
                   rvsVars>>

\* main(), after the second sampler: save its output, restore the generator and
\* construct the asymptotic sampler, tempering on.
RunTempered ==
    /\ scenario = "driver" /\ pc = "done" /\ run = 2
    /\ files' = save_output(files, "gaussian_lkernel")
    /\ rng' = SetState(rng, initial_state)
    /\ lkernel' = "asymptoticLKernel" /\ tempering' = TRUE
    /\ run' = 3
    /\ pc' = "construct"
    /\ UNCHANGED <<scenario, err, initial_state, first, K, target, build,
                   samplesVars, traceVars, estimateVars, savedVars, localVars,
                   rvsVars>>

\* main(), after the third sampler: save its output; the iteration ends.
SaveTempered ==
    /\ scenario = "driver" /\ pc = "done" /\ run = 3
    /\ files' = save_output(files, "asymptotic_lkernel")
    /\ pc' = "exit"
    /\ UNCHANGED <<scenario, run, err, rng, initial_state, first, configVars,
                   samplesVars, traceVars, estimateVars, savedVars, localVars,
                   rvsVars>>

\* The repeated run: keep what the first run left, restore the generator and
\* construct the sampler again with the same configuration.
Rerun ==
    /\ scenario = "repeat" /\ pc = "done" /\ run = 1
    /\ first' = RunResult
    /\ rng' = SetState(rng, initial_state)
    /\ run' = 2
    /\ pc' = "construct"
    /\ UNCHANGED <<scenario, err, initial_state, files, configVars, samplesVars,
                   traceVars, estimateVars, savedVars, localVars, rvsVars>>

Next ==
    \/ Construct
    \/ RestoreAgain
    \/ RecordPhi
    \/ LoopExit
    \/ NormaliseWeights
    \/ Estimate
    \/ CalculateEss
    \/ ResampleIfRequired
    \/ ProposeSamples
    \/ NutsStep
    \/ AccRejStep
    \/ Revert
    \/ Return
    \/ UpdateTemperature
    \/ Reweight
    \/ UpdateSampler
    \/ UpdateSamples
    \/ FinalUpdate
    \/ TemperedStep
    \/ RunGaussian
    \/ RunTempered
    \/ SaveTempered
    \/ Rerun

Spec == Init /\ [][Next]_vars

\* ================================================================== claims

\* normalise_weights has just run on the current log-weights.
Normalised ==
    \/ pc \in {"estimate", "ess"}
    \/ pc \in {"tempered", "done"} /\ kt > 0

FiniteOrNegInf(lw) == \A j \in DOMAIN lw : IsFinite(lw[j].log)

\* C1: for every log-weight vector of finite and -inf entries with at least one
\* finite entry, after normalise_weights every normalised weight is a
\* non-negative number, the normalised weights sum to 1, and every entry whose
\* log-weight is -inf has normalised weight exactly 0.
C1_NormalisedWeights ==
    (Normalised /\ FiniteOrNegInf(logw) /\ \E j \in Particles : LogIsFinite(logw[j]))
    => /\ \A j \in Particles : IsFinite(wn[j]) /\ wn[j][1] >= 0
       /\ QSum(wn) = One
       /\ \A j \in Particles : isneginf(logw[j]) => wn[j] = Zero

\* normalise_weights has run on a vector that mixes -inf with unequal finite
\* log-weights.
C1_Witness ==
    /\ pc = "estimate"
    /\ FiniteOrNegInf(logw)
    /\ \E a, b, c \in Particles :
          /\ isneginf(logw[a]) /\ wn[a] = Zero
          /\ LogIsFinite(logw[b]) /\ LogIsFinite(logw[c])
          /\ QLess(wn[b], wn[c])

\* C2: whenever resampling triggers (ESS below the threshold), all N resulting
\* log-weights equal log_likelihood - log(N), the ESS they imply is N, their
\* log-sum-exp is still log_likelihood, and every resampled position is one of
\* the pre-resampling positions.
C2_ResampleResets ==
    [][(pc = "resample" /\ ResampleRequired(s_ess) /\ pc' = "propose")
       => /\ \A j \in Particles : logw'[j] = LogSub(s_log_likelihood, Log(Q(N, 1)))
          /\ calculate_ess(NormWn(logw')) = Q(N, 1)
          /\ logsumexp(logw') = s_log_likelihood
          /\ s_log_likelihood' = s_log_likelihood
          /\ \A j \in Particles : \E m \in Particles : x'[j] = x[m]]_vars

\* Resampling has triggered and replaced a particle: the population before it
\* held unequal weights, and the one after it repeats a position.
C2_Witness ==
    /\ pc = "propose"
    /\ ResampleRequired(s_ess)
    /\ \E a, b \in Particles : QLess(wn[a], wn[b])
    /\ \E a, b \in Particles : a # b /\ x[a] = x[b]
    /\ \A j \in Particles : logw[j] = LogSub(s_log_likelihood, Log(Q(N, 1)))

Written(arr) == {j \in 0..K : arr[j].n > 0}

\* The sampler of this run has been constructed.
Constructed == pc # "construct"

\* C3: with tempering enabled every temperature update yields phi_next in
\* [phi_current, 1.0]; the recorded phi trace is non-decreasing, stays within
\* [0, 1], and once an entry equals 1.0 every later entry equals 1.0.
C3_PhiTraceMonotone ==
    (tempering /\ Constructed)
    => /\ 0 <= phi_old /\ phi_old <= phi_new /\ phi_new <= PhiGrid
       /\ LET rec == IF pc = "done" THEN 0..K ELSE Written(phi)
          IN  /\ \A j \in rec : 0 <= phi[j].val /\ phi[j].val <= PhiGrid
              /\ \A a, b \in rec :
                    a < b => /\ phi[a].val <= phi[b].val
                             /\ phi[a].val = PhiGrid => phi[b].val = PhiGrid

\* A tempered run has returned with a trace that starts at 0.0, passes through
\* an intermediate temperature and ends at 1.0.
C3_Witness ==
    /\ pc = "done" /\ tempering /\ K = 2
    /\ phi[0].val = 0
    /\ 0 < phi[1].val /\ phi[1].val < PhiGrid
    /\ phi[2].val = PhiGrid

\* C4: with tempering disabled phi stays exactly 1.0 for every iteration: every
\* recorded entry is 1.0, and after sample() returns every entry phi[k],
\* k = 0..K, equals 1.0.
C4_UntemperedPhiIsOne ==
    (~tempering /\ Constructed)
    => /\ phi_new = PhiGrid
       /\ \A j \in Written(phi) : phi[j].val = PhiGrid
       /\ pc = "done" => \A j \in 0..K : phi[j].val = PhiGrid

\* An untempered run of the largest length has returned.
C4_Witness ==
    /\ pc = "done" /\ ~tempering /\ K = MaxK
    /\ \A j \in 0..K : phi[j].n = 1 /\ phi[j].val = PhiGrid

\* C5: with tempering enabled phi reaches exactly 1.0 by the final iteration:
\* whenever sample() has returned, phi[K] equals 1.0.
C5_PhiReachesOne ==
    (pc = "done" /\ tempering) => phi[K].val = PhiGrid

\* The four diagnostics traces.
PrefixWrittenOnce(arr) ==
    /\ \A j \in 0..K : arr[j].n <= 1
    /\ \A a, b \in 0..K : (a < b /\ arr[b].n > 0) => arr[a].n > 0
    /\ pc = "done" => \A j \in 0..K : arr[j].n = 1

\* C7: each entry of the ESS, log-likelihood, phi and acceptance-rate traces is
\* stored to at most once, in increasing order of k, never again afterwards
\* (the tempered re-estimation pass included), and all K+1 entries have been
\* stored to when sample() returns.
C7_TracesWrittenOnce ==
    Constructed
    => /\ PrefixWrittenOnce(ess)
       /\ PrefixWrittenOnce(log_likelihood)
       /\ PrefixWrittenOnce(phi)
       /\ PrefixWrittenOnce(acceptance_rate)

\* The tempered pass has gone through every k and sample() has returned.
C7_Witness ==
    /\ pc = "done" /\ lkernel = "asymptoticLKernel" /\ K = MaxK /\ kt = K + 1
    /\ \A j \in 0..K : ess[j].n = 1 /\ acceptance_rate[j].n = 1

\* C8: in the accept-reject proposal every particle gets exactly one Metropolis
\* test; a particle whose test rejects is returned at its input (x_cond, r_cond)
\* and one whose test accepts is returned at the pair the NUTS tree produced,
\* whatever the outcomes of the other particles.
C8_RevertOnReject ==
    (pc = "return" /\ lkernel = "asymptoticLKernel")
    => \A j \in Particles :
          /\ tests[j] = 1
          /\ accepted[j] => (x_prime[j] = tree_x[j] /\ r_prime[j] = tree_r[j])
          /\ ~accepted[j] => (x_prime[j] = x[j] /\ r_prime[j] = r[j])

\* The proposal returns with one particle accepted and another rejected, both
\* moved by their trees.
C8_Witness ==
    /\ pc = "return" /\ lkernel = "asymptoticLKernel"
    /\ \E a, b \in Particles :
          /\ accepted[a] /\ tree_x[a] # x[a] /\ x_prime[a] = tree_x[a]
          /\ ~accepted[b] /\ tree_x[b] # x[b] /\ x_prime[b] = x[b]

\* C9: when all log-weights are -inf at normalisation the sampler does not go
\* on: it never has an ESS computed from an all-zero normalised weight vector,
\* and the error it stops with is DegenerateWeights.
C9_CollapseIsFatal ==
    /\ ~(pc \in {"resample", "final_update"} /\ \A j \in Particles : wn[j] = Zero)
    /\ (pc = "error" /\ kt = 0 /\ \A j \in Particles : isneginf(logw[j]))
       => err = "DegenerateWeights"

\* The estimates of the tempered pass for index j, from the saved history.
TemperedSamples(j) ==
    TemperedX(x_saved[j], NormWn(logw_saved[j]), RngAfter(pass_rng, N * j))

TemperedWn(j) == NormWn(TemperedLogw(target, TemperedSamples(j), phi[j].val))

\* C10: after the terminal step the tempered re-estimation pass runs exactly
\* when the L-kernel is asymptoticLKernel; it then stores a recomputed mean and
\* variance for every k = 0..K, obtained from the saved history, and while it
\* runs it leaves x_saved, logw_saved and phi unchanged. For the other
\* L-kernels the estimates are those stored once inside each iteration.
C10_TemperedPass ==
    /\ [](/\ pc = "tempered"
             => /\ lkernel = "asymptoticLKernel"
                /\ phi[K].n = 1 /\ ess[K].n = 1
          /\ (pc = "done" /\ lkernel = "asymptoticLKernel")
             => /\ kt = K + 1
                /\ \A j \in 0..K :
                      /\ mean_estimate[j].n = 2 /\ variance_estimate[j].n = 2
                      /\ mean_estimate[j].val
                            = EstimateMean(target, TemperedSamples(j), TemperedWn(j))
                      /\ variance_estimate[j].val
                            = EstimateVar(target, TemperedSamples(j), TemperedWn(j))
          /\ (pc = "done" /\ lkernel # "asymptoticLKernel")
             => /\ kt = 0
                /\ \A j \in 0..K :
                      mean_estimate[j].n = 1 /\ variance_estimate[j].n = 1)
    /\ [][pc = "tempered"
            => /\ x_saved' = x_saved
               /\ logw_saved' = logw_saved
               /\ phi' = phi]_vars

\* An asymptotic, tempered run has returned, and for some k below 1.0 the
\* recomputed mean differs from the one the saved weights give directly.
C10_Witness ==
    /\ pc = "done" /\ lkernel = "asymptoticLKernel" /\ tempering /\ K = MaxK
    /\ \E j \in 0..K :
          /\ phi[j].val < PhiGrid
          /\ mean_estimate[j].n = 2
          /\ mean_estimate[j].val # EstimateMean(target, x_saved[j], NormWn(logw_saved[j]))

\* C11: the acceptance rate recorded for iteration k is the number of particles
\* whose proposed position x_new[i] differs from the current position x[i] in
\* at least one coordinate, divided by N.
C11_AcceptanceRateCountsMoved ==
    pc = "update_samples"
    => acceptance_rate[k].val
          = Q(Cardinality({j \in Particles :
                              \E d \in Dims : x_new[j][d] # x[j][d]}), N)

====
